---- MODULE Spec2Model ----
(***************************************************************************)
(* Resource cache (get_swapi_resource) and schema-driven record            *)
(* transformers of last_assignment.py.                                     *)
(*                                                                         *)
(* Python strings are sequences of one-character strings, so that case     *)
(* folding, trimming, splitting and numeric parsing are computed rather    *)
(* than assumed.  Python values are tagged records:                        *)
(*   [t |-> "none"]                       None                             *)
(*   [t |-> "str",   s |-> chars]         str                              *)
(*   [t |-> "int",   n |-> n]             int                              *)
(*   [t |-> "float", n |-> n, f |-> ds]   float n.ds (ds without trailing  *)
(*                                        zeros)                           *)
(*   [t |-> "list",  l |-> values]        list                             *)
(*   [t |-> "dict",  d |-> items]         dict, items = <<[k, v], ...>> in *)
(*                                        insertion order                  *)
(*   [t |-> "ref",   r |-> id]            reference to a heap object       *)
(***************************************************************************)
EXTENDS Integers, Sequences, FiniteSets, TLC

VARIABLES heap, cache, persisted, remote, held, fetchOK, completed, orig,
          mutated, calls, ret, log, seen

vars == <<heap, cache, persisted, remote, held, fetchOK, completed, orig,
          mutated, calls, ret, log, seen>>

\* ------------------------------------------------------------------ values

NoneV == [t |-> "none"]

Str(s) == [t |-> "str", s |-> s]

IntV(n) == [t |-> "int", n |-> n]

FloatV(n, f) == [t |-> "float", n |-> n, f |-> f]

ListV(l) == [t |-> "list", l |-> l]

DictV(d) == [t |-> "dict", d |-> d]

Ref(r) == [t |-> "ref", r |-> r]

Item(k, v) == [k |-> k, v |-> v]

\* ------------------------------------------------------------ Python dicts

\* key in d
DictHas(d, k) == \E i \in 1..Len(d) : d[i].k = k

\* d.get(k, None)
DictGet(d, k) ==
    IF DictHas(d, k)
    THEN d[CHOOSE i \in 1..Len(d) : d[i].k = k].v
    ELSE NoneV

\* d[k] = v : an existing key keeps its position, a new key is appended
DictSet(d, k, v) ==
    IF DictHas(d, k)
    THEN [i \in 1..Len(d) |-> IF d[i].k = k THEN Item(k, v) ELSE d[i]]
    ELSE Append(d, Item(k, v))

RECURSIVE DictSetAll(_, _)
\* d[k] = v for every item of items, in order
DictSetAll(d, items) ==
    IF items = <<>> THEN d
    ELSE DictSetAll(DictSet(d, Head(items).k, Head(items).v), Tail(items))

\* d.update(other)
DictUpdate(d, other) == DictSetAll(d, other)

\* list(d.keys())
DictKeys(d) == [i \in 1..Len(d) |-> d[i].k]

\* ---------------------------------------------------------------- strings

UpperChars == <<"A", "B", "C", "D", "E", "F", "G", "H", "I", "J", "K", "L", "M",
                "N", "O", "P", "Q", "R", "S", "T", "U", "V", "W", "X", "Y", "Z">>

LowerChars == <<"a", "b", "c", "d", "e", "f", "g", "h", "i", "j", "k", "l", "m",
                "n", "o", "p", "q", "r", "s", "t", "u", "v", "w", "x", "y", "z">>

DigitChars == <<"0", "1", "2", "3", "4", "5", "6", "7", "8", "9">>

IsDigit(c) == \E i \in 1..10 : DigitChars[i] = c

DigitVal(c) == (CHOOSE i \in 1..10 : DigitChars[i] = c) - 1

LowerChar(c) ==
    IF \E i \in 1..26 : UpperChars[i] = c
    THEN LowerChars[CHOOSE i \in 1..26 : UpperChars[i] = c]
    ELSE c

\* s.lower()
Lower(s) == [i \in 1..Len(s) |-> LowerChar(s[i])]

RECURSIVE LStrip(_)
LStrip(s) == IF s # <<>> /\ Head(s) = " " THEN LStrip(Tail(s)) ELSE s

RECURSIVE RStrip(_)
RStrip(s) ==
    IF s # <<>> /\ s[Len(s)] = " " THEN RStrip(SubSeq(s, 1, Len(s) - 1)) ELSE s

\* s.strip()
Strip(s) == RStrip(LStrip(s))

\* s.replace(c, "")
RemoveChar(s, c) == SelectSeq(s, LAMBDA x : x # c)

AllDigits(s) == s # <<>> /\ \A i \in 1..Len(s) : IsDigit(s[i])

RECURSIVE DigitsToInt(_)
DigitsToInt(s) ==
    IF s = <<>> THEN 0
    ELSE 10 * DigitsToInt(SubSeq(s, 1, Len(s) - 1)) + DigitVal(s[Len(s)])

RECURSIVE StripZeros(_)
\* fraction digits without trailing zeros
StripZeros(s) ==
    IF s # <<>> /\ s[Len(s)] = "0" THEN StripZeros(SubSeq(s, 1, Len(s) - 1)) ELSE s

StartsWith(s, p) == Len(s) >= Len(p) /\ SubSeq(s, 1, Len(p)) = p

RECURSIVE Split(_, _)
\* s.split(delim): the pieces of s between occurrences of the non-empty delim
Split(s, delim) ==
    LET hits == {i \in 1..Len(s) : StartsWith(SubSeq(s, i, Len(s)), delim)}
    IN IF hits = {} THEN <<s>>
       ELSE LET i == CHOOSE j \in hits : \A h \in hits : j <= h
            IN <<SubSeq(s, 1, i - 1)>> \o Split(SubSeq(s, i + Len(delim), Len(s)), delim)

\* position of the decimal point, 0 when there is none
DotPos(s) ==
    IF \E i \in 1..Len(s) : s[i] = "."
    THEN CHOOSE i \in 1..Len(s) : s[i] = "." /\ \A j \in 1..(i - 1) : s[j] # "."
    ELSE 0

IntPart(s) == IF DotPos(s) = 0 THEN s ELSE SubSeq(s, 1, DotPos(s) - 1)

FracPart(s) == IF DotPos(s) = 0 THEN <<>> ELSE SubSeq(s, DotPos(s) + 1, Len(s))

\* a decimal numeral: digits, optionally a point and more digits
IsNumeric(s) ==
    /\ AllDigits(IntPart(s))
    /\ FracPart(s) = <<>> \/ AllDigits(FracPart(s))

\* ----------------------------------------------- five_oh_six coercions

\* utl.to_none(value, none_values)
to_none(value, none_values) ==
    IF value.t = "str"
         /\ \E i \in 1..Len(none_values) : none_values[i] = Str(Lower(Strip(value.s)))
    THEN NoneV
    ELSE value

\* utl.to_float(value)
to_float(value) ==
    IF value.t = "str" /\ IsNumeric(RemoveChar(value.s, ","))
    THEN LET s == RemoveChar(value.s, ",")
         IN FloatV(DigitsToInt(IntPart(s)), StripZeros(FracPart(s)))
    ELSE value

\* utl.to_int(value)
to_int(value) ==
    IF value.t = "str" /\ IsNumeric(RemoveChar(value.s, ","))
    THEN IntV(DigitsToInt(IntPart(RemoveChar(value.s, ","))))
    ELSE value

\* utl.to_list(value, delimiter)
to_list(value, delimiter) ==
    IF value.t = "str"
    THEN LET parts == Split(value.s, delimiter)
         IN ListV([i \in 1..Len(parts) |-> Str(parts[i])])
    ELSE value

EraCodes == {<<"B", "B", "Y">>, <<"A", "B", "Y">>}

\* utl.to_year_era(value)
to_year_era(value) ==
    IF /\ value.t = "str"
       /\ Len(value.s) > 3
       /\ SubSeq(value.s, Len(value.s) - 2, Len(value.s)) \in EraCodes
       /\ AllDigits(SubSeq(value.s, 1, Len(value.s) - 3))
    THEN DictV(<<Item("year", IntV(DigitsToInt(SubSeq(value.s, 1, Len(value.s) - 3)))),
                 Item("era", Str(SubSeq(value.s, Len(value.s) - 2, Len(value.s))))>>)
    ELSE value

StandardChars == <<"s", "t", "a", "n", "d", "a", "r", "d">>

\* the magnitude of a gravity string: the text before an optional "standard"
GravityMagnitude(s) ==
    LET low == Lower(s)
        n == Len(low)
    IN IF n >= 8 /\ SubSeq(low, n - 7, n) = StandardChars
       THEN RStrip(SubSeq(low, 1, n - 8))
       ELSE low

\* utl.to_gravity_value(value)
to_gravity_value(value) ==
    IF value.t = "str" /\ IsNumeric(GravityMagnitude(value.s))
    THEN to_float(Str(GravityMagnitude(value.s)))
    ELSE value

\* ------------------------------------------------------ program constants

\* NONE_VALUES = ("", "n/a", "none", "unknown")
NONE_VALUES ==
    <<Str(<<>>), Str(<<"n", "/", "a">>), Str(<<"n", "o", "n", "e">>),
      Str(<<"u", "n", "k", "n", "o", "w", "n">>)>>

\* keys["planet"]: old key -> new key, in the declared order
KeysPlanet ==
    <<Item("url", "url"), Item("name", "name"), Item("region", "region"),
      Item("sector", "sector"), Item("suns", "suns"), Item("moons", "moons"),
      Item("orbital_period", "orbital_period_days"), Item("diameter", "diameter_km"),
      Item("gravity", "gravity_std"), Item("climate", "climate"),
      Item("terrain", "terrain"), Item("population", "population")>>

\* keys["species"]
KeysSpecies ==
    <<Item("url", "url"), Item("name", "name"), Item("classification", "classification"),
      Item("designation", "designation"), Item("average_lifespan", "average_lifespan_yrs"),
      Item("average_height", "average_height_cm"), Item("language", "language")>>

\* keys["droid"]
KeysDroid ==
    <<Item("url", "url"), Item("name", "name"), Item("model", "model"),
      Item("manufacturer", "manufacturer"), Item("create_year", "create_date"),
      Item("height", "height_cm"), Item("mass", "mass_kg"),
      Item("equipment", "equipment"), Item("instructions", "instructions")>>

\* keys["person"]
KeysPerson ==
    <<Item("url", "url"), Item("name", "name"), Item("birth_year", "birth_date"),
      Item("height", "height_cm"), Item("mass", "mass_kg"),
      Item("homeworld", "homeworld"), Item("species", "species"),
      Item("force_sensitive", "force_sensitive")>>

\* keys["starship"]
KeysStarship ==
    <<Item("url", "url"), Item("name", "name"), Item("model", "model"),
      Item("starship_class", "starship_class"), Item("manufacturer", "manufacturer"),
      Item("length", "length_m"), Item("hyperdrive_rating", "hyperdrive_rating"),
      Item("MGLT", "max_megalight_hr"),
      Item("max_atmosphering_speed", "max_atmosphering_speed_kph"),
      Item("crew", "crew_size"), Item("crew_members", "crew_members"),
      Item("passengers", "max_passengers"),
      Item("passengers_on_board", "passengers_on_board"),
      Item("cargo_capacity", "cargo_capacity_kg"), Item("consumables", "consumables"),
      Item("armament", "armament")>>

\* the key mapping table handed to every transformer
KEYS ==
    [planet |-> KeysPlanet, species |-> KeysSpecies, droid |-> KeysDroid,
     person |-> KeysPerson, starship |-> KeysStarship]

\* ------------------------------------------------------- pure transformers

\* value in none_values: tuple membership by ==
PyIn(value, none_values) == \E i \in 1..Len(none_values) : none_values[i] = value

\* One pass of a transformer's loop body: the utl function it called (fn = ""
\* when none was), the argument passed and the value assigned to the new key.
Step(new_key, fn, arg, v) == [k |-> new_key, fn |-> fn, arg |-> arg, v |-> v]

\* the dictionary a transformer's loop builds: out[new_key] = value, in order
StepsToDict(steps) ==
    DictSetAll(<<>>, [i \in 1..Len(steps) |-> Item(steps[i].k, steps[i].v)])

\* mutant: climate and terrain are split at "," alone
PlanetStepSplitAtComma(old_key, new_key, data, none_values) ==
    LET value == DictGet(data, old_key)
    IN IF PyIn(value, none_values)
       THEN Step(new_key, "to_none", value, to_none(value, none_values))
       ELSE IF old_key \in {"suns", "moons", "diameter", "population"}
       THEN Step(new_key, "to_int", value, to_int(value))
       ELSE IF old_key = "orbital_period"
       THEN Step(new_key, "to_float", value, to_float(value))
       ELSE IF old_key = "gravity"
       THEN Step(new_key, "to_gravity_value", value, to_gravity_value(value))
       ELSE IF old_key \in {"climate", "terrain"}
       THEN Step(new_key, "to_list", value, to_list(value, <<",">>))
       ELSE Step(new_key, "", value, value)

\* transform_planet, one loop pass
PlanetStep(old_key, new_key, data, none_values) ==
    LET value == DictGet(data, old_key)
    IN IF PyIn(value, none_values)
       THEN Step(new_key, "to_none", value, to_none(value, none_values))
       ELSE IF old_key \in {"suns", "moons", "diameter", "population"}
       THEN Step(new_key, "to_int", value, to_int(value))
       ELSE IF old_key = "orbital_period"
       THEN Step(new_key, "to_float", value, to_float(value))
       ELSE IF old_key = "gravity"
       THEN Step(new_key, "to_gravity_value", value, to_gravity_value(value))
       ELSE IF old_key \in {"climate", "terrain"}
       THEN Step(new_key, "to_list", value, to_list(value, <<",", " ">>))
       ELSE Step(new_key, "", value, value)

RECURSIVE PlanetLoop(_, _, _, _, _)
\* the loop over keys["planet"].items()
PlanetLoop(i, steps, data, keys, none_values) ==
    IF i > Len(keys.planet) THEN steps
    ELSE PlanetLoop(i + 1,
                 Append(steps, PlanetStep(keys.planet[i].k, keys.planet[i].v, data,
                                       none_values)),
                 data, keys, none_values)

planet_steps(data, keys, none_values) == PlanetLoop(1, <<>>, data, keys, none_values)

\* mutant: keys the record lacks are left out
transform_planet_present_only(data, keys, none_values) ==
    LET present == {keys.planet[i].v :
                       i \in {j \in 1..Len(keys.planet) : DictHas(data, keys.planet[j].k)}}
    IN StepsToDict(SelectSeq(planet_steps(data, keys, none_values),
                             LAMBDA st : st.k \in present))

transform_planet(data, keys, none_values) ==
    StepsToDict(planet_steps(data, keys, none_values))

\* transform_species, one loop pass
SpeciesStep(old_key, new_key, data, none_values) ==
    LET value == DictGet(data, old_key)
    IN IF PyIn(value, none_values)
       THEN Step(new_key, "to_none", value, to_none(value, none_values))
       ELSE IF old_key \in {"average_height"}
       THEN Step(new_key, "to_float", value, to_float(value))
       ELSE IF old_key = "average_lifespan"
       THEN Step(new_key, "to_int", value, to_int(value))
       ELSE Step(new_key, "", value, value)

RECURSIVE SpeciesLoop(_, _, _, _, _)
\* the loop over keys["species"].items()
SpeciesLoop(i, steps, data, keys, none_values) ==
    IF i > Len(keys.species) THEN steps
    ELSE SpeciesLoop(i + 1,
                 Append(steps, SpeciesStep(keys.species[i].k, keys.species[i].v, data,
                                       none_values)),
                 data, keys, none_values)

species_steps(data, keys, none_values) == SpeciesLoop(1, <<>>, data, keys, none_values)

transform_species(data, keys, none_values) ==
    StepsToDict(species_steps(data, keys, none_values))

\* transform_droid, one loop pass
DroidStep(old_key, new_key, data, none_values) ==
    LET value == DictGet(data, old_key)
    IN IF PyIn(value, none_values)
       THEN Step(new_key, "to_none", value, to_none(value, none_values))
       ELSE IF old_key \in {"height", "mass"}
       THEN Step(new_key, "to_float", value, to_float(value))
       ELSE IF old_key = "create_year"
       THEN Step(new_key, "to_year_era", value, to_year_era(value))
       ELSE IF old_key \in {"equipment", "instructions"}
       THEN Step(new_key, "to_list", value, to_list(value, <<"|">>))
       ELSE Step(new_key, "", value, value)

RECURSIVE DroidLoop(_, _, _, _, _)
\* the loop over keys["droid"].items()
DroidLoop(i, steps, data, keys, none_values) ==
    IF i > Len(keys.droid) THEN steps
    ELSE DroidLoop(i + 1,
                 Append(steps, DroidStep(keys.droid[i].k, keys.droid[i].v, data,
                                       none_values)),
                 data, keys, none_values)

droid_steps(data, keys, none_values) == DroidLoop(1, <<>>, data, keys, none_values)

transform_droid(data, keys, none_values) ==
    StepsToDict(droid_steps(data, keys, none_values))

\* transform_starship, one loop pass
StarshipStep(old_key, new_key, data, none_values) ==
    LET value == DictGet(data, old_key)
    IN IF PyIn(value, none_values)
       THEN Step(new_key, "to_none", value, to_none(value, none_values))
       ELSE IF old_key \in {"length", "hyperdrive_rating"}
       THEN Step(new_key, "to_float", value, to_float(value))
       ELSE IF old_key \in {"MGLT", "crew", "passengers", "cargo_capacity",
                            "max_atmosphering_speed"}
       THEN Step(new_key, "to_int", value, to_int(value))
       ELSE IF old_key = "armament"
       THEN Step(new_key, "to_list", value, to_list(value, <<",">>))
       ELSE Step(new_key, "", value, value)

RECURSIVE StarshipLoop(_, _, _, _, _)
\* the loop over keys["starship"].items()
StarshipLoop(i, steps, data, keys, none_values) ==
    IF i > Len(keys.starship) THEN steps
    ELSE StarshipLoop(i + 1,
                 Append(steps, StarshipStep(keys.starship[i].k, keys.starship[i].v, data,
                                       none_values)),
                 data, keys, none_values)

starship_steps(data, keys, none_values) == StarshipLoop(1, <<>>, data, keys, none_values)

transform_starship(data, keys, none_values) ==
    StepsToDict(starship_steps(data, keys, none_values))

\* ------------------------------------------------------------------- heap
\* The heap is a sequence of objects; an object's id is its index.  A resource
\* is a dict object whose list-valued fields are references to list objects.
\* An object nothing refers to any more is freed, and its id is used again.

Free == [t |-> "free"]

\* the value an object graph denotes: references replaced by what they hold
Deref(h, id) ==
    DictV([i \in 1..Len(h[id].d) |->
             IF h[id].d[i].v.t = "ref"
             THEN Item(h[id].d[i].k, h[h[id].d[i].v.r])
             ELSE h[id].d[i]])

\* a fresh object graph holding the dict value `pure`: [heap, id]
Alloc(h, pure) ==
    LET d == pure.d
        ListPos == {i \in 1..Len(d) : d[i].v.t = "list"}
        need == 1 + Cardinality(ListPos)
        Slots == {i \in 1..(Len(h) + need) : i > Len(h) \/ h[i] = Free}
        Slot(n) == CHOOSE i \in Slots : Cardinality({j \in Slots : j < i}) = n - 1
        Rank(i) == Cardinality({j \in ListPos : j <= i})
        top == DictV([i \in 1..Len(d) |->
                        IF i \in ListPos THEN Item(d[i].k, Ref(Slot(1 + Rank(i))))
                        ELSE d[i]])
        Obj(n) == IF n = 1 THEN top ELSE d[CHOOSE i \in ListPos : Rank(i) = n - 1].v
        last == IF Slot(need) > Len(h) THEN Slot(need) ELSE Len(h)
    IN [heap |-> [i \in 1..last |->
                    IF \E n \in 1..need : Slot(n) = i
                    THEN Obj(CHOOSE n \in 1..need : Slot(n) = i)
                    ELSE IF i <= Len(h) THEN h[i] ELSE Free],
        id |-> Slot(1)]

\* copy.deepcopy(obj): a fresh graph equal to obj's, sharing nothing with it
DeepCopy(h, id) == Alloc(h, Deref(h, id))

\* obj[k] = v on a dict object
HeapSetField(h, id, k, v) == [h EXCEPT ![id] = DictV(DictSet(h[id].d, k, v))]

\* obj.update(other) on a dict object
HeapUpdate(h, id, other) == [h EXCEPT ![id] = DictV(DictUpdate(h[id].d, other))]

\* lst.append(v) on a list object
HeapAppend(h, id, v) == [h EXCEPT ![id] = ListV(Append(h[id].l, v))]

\* the list objects a dict object refers to
NestedOf(h, id) == {h[id].d[i].v.r : i \in {j \in 1..Len(h[id].d) : h[id].d[j].v.t = "ref"}}

RECURSIVE Trim(_)
Trim(h) == IF h # <<>> /\ h[Len(h)] = Free THEN Trim(SubSeq(h, 1, Len(h) - 1)) ELSE h

\* the heap once every object that roots do not reach is freed
Collect(h, roots) ==
    LET live == roots \cup UNION {NestedOf(h, id) : id \in roots}
    IN Trim([i \in 1..Len(h) |-> IF i \in live THEN h[i] ELSE Free])

\* ------------------------------------------------------- remote resources

UrlPlanet == Str(<<"/", "p", "1">>)

UrlSpecies == Str(<<"/", "s", "1">>)

UrlOther == Str(<<"/", "s", "2">>)

\* the resources the remote API serves
RemoteUrls == {UrlPlanet, UrlSpecies}

NameTat == Str(<<"T", "a", "t">>)

NameHum == Str(<<"H", "u", "m">>)

\* what the API answers for url at a given revision of its data
RemoteContent(url, params, version) ==
    IF url = UrlPlanet
    THEN DictV(<<Item("name", NameTat), Item("url", UrlPlanet),
                 Item("diameter",
                      IF version = 0 THEN Str(<<"1", "0", ",", "4", "6", "5">>)
                      ELSE Str(<<"u", "n", "k", "n", "o", "w", "n">>)),
                 Item("gravity", Str(<<"1", " ", "s", "t", "a", "n", "d", "a", "r", "d">>)),
                 Item("climate", Str(<<"a", "r", "i", "d">>)),
                 Item("residents", ListV(<<Str(<<"/", "r", "1">>)>>))>>)
    ELSE DictV(<<Item("name", NameHum), Item("url", UrlSpecies),
                 Item("average_lifespan",
                      IF version = 0 THEN Str(<<"1", "2", "0">>)
                      ELSE Str(<<"1", "0", "0">>)),
                 Item("average_height", Str(<<"1", "8", "0", ".", "5">>)),
                 Item("people", ListV(<<Str(<<"/", "r", "1">>)>>))>>)

\* ------------------------------------------------------------------ world
\* The state get_swapi_resource reads and writes, threaded through a call:
\*   heap, cache (fingerprint -> object id), persisted (the cache document, or
\*   NoFile), the history of the run, the event log of the running operation,
\*   and the environment of the call: remote (the revision the API serves) and
\*   down (the urls whose fetch fails during the call).

NoFile == [t |-> "nofile"]

Event(ev, key, id, val) == [ev |-> ev, key |-> key, id |-> id, val |-> val]

Logged(W, ev, key, id, val) == [W EXCEPT !.log = Append(@, Event(ev, key, id, val))]

\* f[k] + 1 for a counter over a growing domain
Count(f, k) == IF k \in DOMAIN f THEN f[k] ELSE 0

Inc(f, k) == [x \in DOMAIN f \cup {k} |-> IF x = k THEN Count(f, k) + 1 ELSE f[x]]

\* utl.create_cache_key(url, params): absent and empty params encode alike
create_cache_key(url, params) ==
    [url |-> url, q |-> IF params.t = "dict" THEN params.d ELSE <<>>]

\* the document json.dump writes for the cache
CacheDocument(h, c) == DictV([i \in 1..Len(c) |-> Item(c[i].k, Deref(h, c[i].v))])

\* utl.write_json(filepath, data)
write_json(W, c) == [W EXCEPT !.persisted = CacheDocument(W.heap, c)]

\* utl.get_resource(url, params, timeout): [ok, w, id]; the fetcher keeps the
\* history of its calls: a "fetch" event per call, then "fetched" or "failed",
\* the number of its successes per fingerprint (fetchOK) and what it first
\* gave for each (orig)
get_resource(W, url, params) ==
    LET key == create_cache_key(url, params)
        W0 == Logged(W, "fetch", key, 0, NoneV)
    IN IF url \in RemoteUrls /\ url \notin W.down
       THEN LET a == Alloc(W0.heap, RemoteContent(url, params, W0.remote))
                W1 == [W0 EXCEPT !.heap = a.heap, !.fetchOK = Inc(@, key),
                                 !.orig = IF DictHas(@, key) THEN @
                                          ELSE DictSet(@, key, Deref(a.heap, a.id))]
            IN [ok |-> TRUE, id |-> a.id,
                w |-> Logged(W1, "fetched", key, a.id, Deref(a.heap, a.id))]
       ELSE [ok |-> FALSE, id |-> 0, w |-> Logged(W0, "failed", key, 0, NoneV)]

\* mutant: copy.copy(cache[key]), a new dict sharing the nested lists
ShallowCopyOnHit(h, id) ==
    LET free == {i \in 1..Len(h) : h[i] = Free}
    IN IF free = {} THEN [heap |-> Append(h, h[id]), id |-> Len(h) + 1]
       ELSE LET slot == CHOOSE i \in free : \A j \in free : i <= j
            IN [heap |-> [h EXCEPT ![slot] = h[id]], id |-> slot]

\* copy.deepcopy(cache[key]) of the hit branch
CopyOnHit(h, id) == DeepCopy(h, id)

\* mutant: cache[key] = resource, the object that is also returned
NoCopyOnStore(h, id) == [heap |-> h, id |-> id]

\* copy.deepcopy(resource) of the miss branch
CopyOnStore(h, id) == DeepCopy(h, id)

\* mutant: the cache is not written to the file
PersistNothing(W) == W

\* utl.write_json(CACHE_FILEPATH, cache)
PersistCache(W) == write_json(W, W.cache)

\* the hit branch: return copy.deepcopy(cache[key])
CacheHit(W, key) ==
    LET cp == CopyOnHit(W.heap, DictGet(W.cache, key))
        W1 == [W EXCEPT !.heap = cp.heap, !.completed = @ \cup {key}]
    IN [ok |-> TRUE, id |-> cp.id,
        w |-> Logged(W1, "return", key, cp.id, Deref(cp.heap, cp.id))]

\* mutant: the cache file is written before the entry is stored
PersistThenStore(r, key) ==
    LET W0 == Logged(PersistCache(r.w), "persist", key, 0, NoneV)
        cp == CopyOnStore(W0.heap, r.id)
        W1 == [W0 EXCEPT !.heap = cp.heap, !.cache = DictSet(@, key, cp.id)]
        W2 == Logged(W1, "store", key, cp.id, NoneV)
        W4 == [W2 EXCEPT !.completed = @ \cup {key}]
    IN [ok |-> TRUE, id |-> r.id,
        w |-> Logged(W4, "return", key, r.id, Deref(W4.heap, r.id))]

\* the miss branch after a fetch that gave r: store a deep copy, persist,
\* return the resource
StoreAndReturn(r, key) ==
    LET cp == CopyOnStore(r.w.heap, r.id)
        W1 == [r.w EXCEPT !.heap = cp.heap, !.cache = DictSet(@, key, cp.id)]
        W2 == Logged(W1, "store", key, cp.id, NoneV)
        W3 == Logged(PersistCache(W2), "persist", key, 0, NoneV)
        W4 == [W3 EXCEPT !.completed = @ \cup {key}]
    IN [ok |-> TRUE, id |-> r.id,
        w |-> Logged(W4, "return", key, r.id, Deref(W4.heap, r.id))]

\* mutant: a failed fetch empties the cache and its file before it is raised
RaisedDropsCache(r, key) ==
    [ok |-> FALSE, id |-> 0,
     w |-> Logged([r.w EXCEPT !.cache = <<>>, !.persisted = DictV(<<>>)],
                  "raise", key, 0, NoneV)]

\* the exception of a failed fetch r leaves get_swapi_resource
Raised(r, key) == [ok |-> FALSE, id |-> 0, w |-> Logged(r.w, "raise", key, 0, NoneV)]

\* the miss branch once utl.get_resource has given r
Fetched(r, key) == IF ~r.ok THEN Raised(r, key) ELSE StoreAndReturn(r, key)

\* the same with the cache file written even when the fetch failed
FetchedPersistAlways(r, key) ==
    IF ~r.ok
    THEN [ok |-> FALSE, id |-> 0, w |-> Logged(PersistCache(r.w), "raise", key, 0, NoneV)]
    ELSE StoreAndReturn(r, key)

\* the same with the fetched resource returned without being stored
FetchedNoStore(r, key) ==
    IF ~r.ok THEN Raised(r, key)
    ELSE [ok |-> TRUE, id |-> r.id,
          w |-> Logged([r.w EXCEPT !.completed = @ \cup {key}], "return", key, r.id,
                       Deref(r.w.heap, r.id))]

\* mutant: the cache file is written even when the fetch failed
CacheMissPersistAlways(W, key, url, params) ==
    FetchedPersistAlways(get_resource(W, url, params), key)

\* mutant: the fetched resource is returned without being stored
CacheMissNoStore(W, key, url, params) ==
    FetchedNoStore(get_resource(W, url, params), key)

\* the miss branch: fetch; a failure is raised to the caller
CacheMiss(W, key, url, params) == Fetched(get_resource(W, url, params), key)

\* mutant: the cache is not consulted
get_swapi_resource_no_lookup(W, url, params) ==
    LET key == create_cache_key(url, params)
        W1 == Logged(W, "key", key, 0, NoneV)
    IN CacheMiss(Logged(W1, "miss", key, 0, NoneV), key, url, params)

\* get_swapi_resource(url, params=None, timeout=10): [ok, id, w]
get_swapi_resource(W, url, params) ==
    LET key == create_cache_key(url, params)
        W1 == Logged(W, "key", key, 0, NoneV)
    IN IF DictHas(W1.cache, key)
       THEN CacheHit(Logged(W1, "hit", key, DictGet(W1.cache, key), NoneV), key)
       ELSE CacheMiss(Logged(W1, "miss", key, 0, NoneV), key, url, params)

\* ------------------------------------------------------- transform_person

\* bool(value) for the values the transformer tests
Truthy(value) ==
    \/ value.t = "list" /\ value.l # <<>>
    \/ value.t = "dict" /\ value.d # <<>>
    \/ value.t = "str" /\ value.s # <<>>

\* utl.get_nested_dict(records, field, target): the first record whose field
\* equals target, or None
get_nested_dict(records, field, target) ==
    LET hits == {i \in 1..Len(records) :
                    DictHas(records[i].d, field) /\ DictGet(records[i].d, field) = target}
    IN IF hits = {} THEN NoneV
       ELSE records[CHOOSE i \in hits : \A j \in hits : i <= j]

\* value[0] is defined for a non-empty list or string
CanIndex0(value) ==
    \/ value.t = "list" /\ value.l # <<>>
    \/ value.t = "str" /\ value.s # <<>>

\* mutant: value[-1]
IndexLast(value) ==
    IF value.t = "list" THEN value.l[Len(value.l)] ELSE Str(<<value.s[Len(value.s)]>>)

\* value[0]
Index0(value) == IF value.t = "list" THEN value.l[1] ELSE Str(<<value.s[1]>>)

\* mutant: the resolved record wins over the secondary one
OverlayPrimaryWins(h, id, wookie) ==
    [h EXCEPT ![id] = DictV(DictUpdate(wookie.d, h[id].d))]

\* mutant: wookie_homeworld.update(value), on the record of planets itself
OverlayIntoSecondary(h, id, wookie) ==
    [h EXCEPT ![CHOOSE i \in 1..Len(h) :
                   h[i] = wookie /\ \A j \in 1..(i - 1) : h[j] # wookie]
                 = DictV(DictUpdate(wookie.d, h[id].d))]

\* value.update(wookie_homeworld), when planets holds a record of that name
OverlayHomeworld(h, id, wookie) == HeapUpdate(h, id, wookie.d)

\* wookie_homeworld: the secondary record of the resolved homeworld's name,
\* when planets is given; planets is None or a list of references to its
\* records
WookieHomeworld(r, planets) ==
    IF Truthy(planets)
    THEN get_nested_dict([i \in 1..Len(planets.l) |-> r.w.heap[planets.l[i].r]],
                         "name", DictGet(r.w.heap[r.id].d, "name"))
    ELSE NoneV

\* the homeworld branch once resolved: overlay wookie if there is one,
\* transform
HomeworldMerged(acc, new_key, value, keys, none_values, r, wookie) ==
    LET h2 == IF Truthy(wookie) THEN OverlayHomeworld(r.w.heap, r.id, wookie)
              ELSE r.w.heap
        m2 == IF Truthy(wookie)
              THEN r.w.mutated \cup {create_cache_key(value, NoneV)}
              ELSE r.w.mutated
    IN [acc EXCEPT !.w = [r.w EXCEPT !.heap = h2, !.mutated = m2],
                   !.steps = Append(@,
                       Step(new_key, "get_swapi_resource", value,
                            DictV(transform_planet(Deref(h2, r.id).d, keys,
                                                   none_values))))]

\* the homeworld branch after get_swapi_resource(value) gave r
HomeworldResolved(acc, new_key, value, keys, none_values, planets, r) ==
    IF ~r.ok THEN [acc EXCEPT !.w = r.w, !.exc = "fetch"]
    ELSE IF Truthy(planets) /\ ~DictHas(r.w.heap[r.id].d, "name")
    THEN [acc EXCEPT !.w = r.w, !.exc = "KeyError"]
    ELSE HomeworldMerged(acc, new_key, value, keys, none_values, r,
                         WookieHomeworld(r, planets))

\* the homeworld branch: resolve, overlay the secondary record, transform
HomeworldStep(acc, new_key, value, keys, none_values, planets) ==
    HomeworldResolved(acc, new_key, value, keys, none_values, planets,
                      get_swapi_resource(acc.w, value, NoneV))

\* the species branch after get_swapi_resource(url) gave r
SpeciesResolved(acc, new_key, url, keys, none_values, r) ==
    IF ~r.ok THEN [acc EXCEPT !.w = r.w, !.exc = "fetch"]
    ELSE [acc EXCEPT
            !.w = r.w,
            !.steps = Append(@, Step(new_key, "get_swapi_resource", url,
                DictV(transform_species(Deref(r.w.heap, r.id).d, keys, none_values))))]

\* the species branch: resolve the first element, transform
SpeciesStepOfPerson(acc, new_key, value, keys, none_values) ==
    IF ~CanIndex0(value)
    THEN [acc EXCEPT !.exc = IF value.t \in {"list", "str"} THEN "IndexError"
                              ELSE "TypeError"]
    ELSE SpeciesResolved(acc, new_key, Index0(value), keys, none_values,
                         get_swapi_resource(acc.w, Index0(value), NoneV))

\* transform_person, one loop pass; acc = [w, steps, exc]
PersonStep(acc, old_key, new_key, data, keys, none_values, planets) ==
    LET value == DictGet(data, old_key)
    IN IF PyIn(value, none_values)
       THEN [acc EXCEPT !.steps = Append(@,
                Step(new_key, "to_none", value, to_none(value, none_values)))]
       ELSE IF old_key \in {"height", "mass"}
       THEN [acc EXCEPT !.steps = Append(@,
                Step(new_key, "to_float", value, to_float(value)))]
       ELSE IF old_key = "birth_year"
       THEN [acc EXCEPT !.steps = Append(@,
                Step(new_key, "to_year_era", value, to_year_era(value)))]
       ELSE IF old_key = "homeworld"
       THEN HomeworldStep(acc, new_key, value, keys, none_values, planets)
       ELSE IF old_key = "species"
       THEN SpeciesStepOfPerson(acc, new_key, value, keys, none_values)
       ELSE [acc EXCEPT !.steps = Append(@, Step(new_key, "", value, value))]

RECURSIVE PersonLoop(_, _, _, _, _, _)
\* the loop over keys["person"].items(), left at the first exception
PersonLoop(i, acc, data, keys, none_values, planets) ==
    IF i > Len(keys.person) \/ acc.exc # "" THEN acc
    ELSE PersonLoop(i + 1,
                    PersonStep(acc, keys.person[i].k, keys.person[i].v, data, keys,
                               none_values, planets),
                    data, keys, none_values, planets)

\* transform_person(data, keys, none_values, planets): [w, steps, exc]
transform_person(W, data, keys, none_values, planets) ==
    PersonLoop(1, [w |-> W, steps |-> <<>>, exc |-> ""], data, keys, none_values, planets)

\* ----------------------------------------------------------------- bounds

\* calls of get_swapi_resource and of the transformers in a behaviour
MaxCalls == 4

\* ----------------------------------------------------------------- inputs

\* del d[k]
DictDel(d, k) == SelectSeq(d, LAMBDA it : it.k # k)

\* raw field values: sentinels in several spellings, numerals, lists, names,
\* null and an already-split list
Pool ==
    {Str(<<>>), Str(<<"n", "/", "a">>), Str(<<"N", "/", "A">>),
     Str(<<"U", "n", "k", "n", "o", "w", "n">>), Str(<<" ", "n", "o", "n", "e">>),
     Str(<<"1", "2", ",", "1", "2", "0">>), Str(<<"1", ".", "5">>),
     Str(<<"1", " ", "s", "t", "a", "n", "d", "a", "r", "d">>),
     Str(<<"a", ",", " ", "b">>), Str(<<"x", "|", "y">>),
     Str(<<"1", "9", "B", "B", "Y">>), NameTat, NoneV, ListV(<<Str(<<"a">>)>>)}

\* base, the empty record, and base with one of fields set to a pool value or
\* deleted
Raws(base, fields) ==
    {base, <<>>}
        \cup {DictSet(base, k, v) : k \in fields, v \in Pool}
        \cup {DictDel(base, k) : k \in fields}

PlanetBase ==
    <<Item("name", NameTat), Item("system", Str(<<"x">>)),
      Item("region", Str(<<"O", "u", "t">>)), Item("suns", Str(<<"2">>)),
      Item("diameter", Str(<<"1", "0", ",", "4", "6", "5">>)),
      Item("gravity", Str(<<"1", " ", "s", "t", "a", "n", "d", "a", "r", "d">>)),
      Item("climate", Str(<<"a", "r", "i", "d", ",", " ", "h", "o", "t">>))>>

PlanetRaws ==
    Raws(PlanetBase, {"name", "diameter", "orbital_period", "gravity", "climate"})

SpeciesBase ==
    <<Item("name", NameHum), Item("average_lifespan", Str(<<"1", "2", "0">>)),
      Item("average_height", Str(<<"1", "8", "0", ".", "5">>)),
      Item("people", ListV(<<Str(<<"/", "r", "1">>)>>))>>

SpeciesRaws == Raws(SpeciesBase, {"average_lifespan", "average_height", "language"})

DroidBase ==
    <<Item("name", Str(<<"R", "2">>)), Item("create_year", Str(<<"3", "3", "B", "B", "Y">>)),
      Item("height", Str(<<"0", ".", "9", "6">>)),
      Item("equipment", Str(<<"a", "|", "b">>)), Item("films", ListV(<<>>))>>

DroidRaws == Raws(DroidBase, {"create_year", "height", "equipment"})

StarshipBase ==
    <<Item("armament", Str(<<"a", ",", "b">>)), Item("name", Str(<<"T", "w">>)),
      Item("length", Str(<<"3", "4", ".", "1">>)), Item("crew", Str(<<"2">>)),
      Item("pilots", ListV(<<>>))>>

StarshipRaws == Raws(StarshipBase, {"length", "crew", "armament"})

PersonBase ==
    <<Item("name", Str(<<"A", "n", "a">>)), Item("url", Str(<<"/", "a">>)),
      Item("birth_year", Str(<<"4", "1", "B", "B", "Y">>)),
      Item("height", Str(<<"1", "8", "8">>)), Item("homeworld", UrlPlanet),
      Item("species", ListV(<<UrlSpecies>>)), Item("films", ListV(<<>>))>>

HomeworldValues ==
    {UrlPlanet, UrlOther, Str(<<"u", "n", "k", "n", "o", "w", "n">>),
     Str(<<"U", "n", "k", "n", "o", "w", "n">>)}

SpeciesValues ==
    {ListV(<<UrlSpecies>>), ListV(<<UrlSpecies, UrlOther>>), ListV(<<>>),
     Str(<<"n", "/", "a">>)}

\* persons differing in how homeworld and species are given
LinkedPersons ==
    {DictSet(DictSet(PersonBase, "homeworld", h), "species", s) :
        h \in HomeworldValues, s \in SpeciesValues}
        \cup {DictDel(PersonBase, "homeworld"), DictDel(PersonBase, "species")}

PersonRaws == LinkedPersons \cup Raws(PersonBase, {"birth_year"})

\* secondary (Wookieepedia) planet records
WookTat ==
    DictV(<<Item("name", NameTat), Item("region", Str(<<"O", "u", "t">>)),
            Item("diameter", Str(<<"1", "2", ",", "1", "2", "0">>))>>)

WookTatAgain == DictV(<<Item("name", NameTat), Item("region", Str(<<"M", "i", "d">>))>>)

WookNab == DictV(<<Item("name", Str(<<"N", "a", "b">>)), Item("region", Str(<<"M", "i", "d">>))>>)

\* the planets argument: not given, empty, matching (twice), not matching
PlanetSets ==
    {NoneV, ListV(<<>>), ListV(<<WookNab, WookTat, WookTatAgain>>), ListV(<<WookNab>>)}

\* the (url, params) pairs the driver resolves
ResolveArgs ==
    {<<UrlPlanet, NoneV>>, <<UrlPlanet, DictV(<<>>)>>, <<UrlSpecies, NoneV>>}

\* the cache documents the run may start from: no file, or a file written by
\* an earlier run
StartDocuments ==
    {NoFile,
     DictV(<<Item(create_cache_key(UrlPlanet, NoneV), RemoteContent(UrlPlanet, NoneV, 0))>>)}

\* ------------------------------------------------------------ state machine

RECURSIVE LoadEntries(_, _, _)
\* the objects json.load builds for a document's entries: [heap, cache]
LoadEntries(h, c, items) ==
    IF items = <<>> THEN [heap |-> h, cache |-> c]
    ELSE LET a == Alloc(h, Head(items).v)
         IN LoadEntries(a.heap, Append(c, Item(Head(items).k, a.id)), Tail(items))

\* utl.create_cache(filepath): the file's document if there is one, else {}
create_cache(doc) ==
    IF doc = NoFile THEN [heap |-> <<>>, cache |-> <<>>]
    ELSE LoadEntries(<<>>, <<>>, doc.d)

\* what the last operation was and gave
Ret(op, ok, id, data, planets, out, steps, exc) ==
    [op |-> op, ok |-> ok, id |-> id, data |-> data, planets |-> planets,
     out |-> out, steps |-> steps, exc |-> exc, after |-> NoneV]

EmptyFn == [x \in {} |-> 0]

\* the state after the module is loaded, with n operations already counted
Start(n) ==
    \E doc \in StartDocuments :
        /\ persisted = doc
        /\ heap = create_cache(doc).heap
        /\ cache = create_cache(doc).cache
        /\ orig = IF doc = NoFile THEN <<>> ELSE doc.d
        /\ remote = 0
        /\ held = <<>>
        /\ mutated = {}
        /\ fetchOK = EmptyFn
        /\ completed = {}
        /\ calls = n
        /\ ret = Ret("init", TRUE, 0, <<>>, NoneV, <<>>, <<>>, "")
        /\ log = <<>>
        /\ seen = EmptyFn

Init == Start(0)

\* the world an operation starts in
World(down) ==
    [heap |-> heap, cache |-> cache, persisted |-> persisted,
     fetchOK |-> fetchOK, completed |-> completed,
     orig |-> orig, mutated |-> mutated, log |-> <<>>, remote |-> remote,
     down |-> down]

\* the ids of a dict's values
Ids(c) == {c[i].v : i \in 1..Len(c)}

\* the ids of the values the driver holds
HeldIds(q) == {q[i].id : i \in 1..Len(q)}

\* the world an operation leaves; keep is what the driver still holds
Commit(W, keep) ==
    /\ heap' = Collect(W.heap, Ids(W.cache) \cup HeldIds(keep))
    /\ held' = keep
    /\ cache' = W.cache
    /\ persisted' = W.persisted
    /\ fetchOK' = W.fetchOK
    /\ mutated' = W.mutated
    /\ completed' = W.completed
    /\ orig' = W.orig
    /\ log' = W.log

\* the driver's variable: the value it was returned last, and its fingerprint
Keep(q, id, key) == <<[id |-> id, key |-> key]>>

\* get_swapi_resource(url, params) gave r: the driver keeps what it returned
Resolved(url, params, r) ==
    /\ Commit(r.w, IF r.ok THEN Keep(held, r.id, create_cache_key(url, params))
                   ELSE held)
    /\ ret' = Ret("resolve", r.ok, r.id, <<>>, NoneV, <<>>, <<>>,
                  IF r.ok THEN "" ELSE "fetch")

\* the driver calls get_swapi_resource(url, params) and keeps what it returns
Resolve(url, params, down) ==
    /\ calls < MaxCalls
    /\ Resolved(url, params, get_swapi_resource(World(down), url, params))
    /\ calls' = calls + 1
    /\ UNCHANGED <<remote, seen>>

MutationMark == Str(<<"X">>)

\* the driver changes a field of a value it was returned
MutateField(v) ==
    /\ DictGet(heap[v.id].d, "name") # MutationMark
    /\ heap' = HeapSetField(heap, v.id, "name", MutationMark)
    /\ mutated' = mutated \cup {v.key}
    /\ ret' = Ret("mutate", TRUE, v.id, <<>>, NoneV, <<>>, <<>>, "")
    /\ log' = <<>>
    /\ UNCHANGED <<cache, persisted, remote, held, fetchOK, completed, orig, calls,
                   seen>>

\* the driver appends to a list nested in a value it was returned
MutateNested(v) ==
    /\ \E l \in NestedOf(heap, v.id) :
          /\ heap[l].l = <<>> \/ heap[l].l[Len(heap[l].l)] # MutationMark
          /\ heap' = HeapAppend(heap, l, MutationMark)
    /\ mutated' = mutated \cup {v.key}
    /\ ret' = Ret("mutate", TRUE, v.id, <<>>, NoneV, <<>>, <<>>, "")
    /\ log' = <<>>
    /\ UNCHANGED <<cache, persisted, remote, held, fetchOK, completed, orig, calls,
                   seen>>

\* the remote API's data is revised
RemoteChange ==
    /\ remote = 0
    /\ remote' = 1
    /\ ret' = Ret("remote", TRUE, 0, <<>>, NoneV, <<>>, <<>>, "")
    /\ log' = <<>>
    /\ UNCHANGED <<heap, cache, persisted, held, fetchOK, completed, orig, mutated,
                   calls, seen>>

\* which fetches fail during an operation
Outages == {{}, {UrlSpecies}, RemoteUrls}

\* the person transforms the cache is exercised with, whose results are
\* remembered per argument
CachePersons == {PersonBase}

CachePlanetSets == {NoneV, ListV(<<WookNab, WookTat, WookTatAgain>>)}

Tracked == CachePersons \X CachePlanetSets

\* (data, planets, outage) of the person transforms run against the cache
CacheRuns == CachePersons \X CachePlanetSets \X {{}, {UrlSpecies}}

\* (data, planets, outage) of the person transforms run on their own: every
\* raw person with no planets and no outage, and the base person with every
\* planets argument and outage
PersonRuns ==
    (PersonRaws \X {NoneV} \X {{}}) \cup ({PersonBase} \X PlanetSets \X Outages)

\* f with f[k] = v
SetFn(f, k, v) == [x \in DOMAIN f \cup {k} |-> IF x = k THEN v ELSE f[x]]

\* the caller's planets argument as objects of heap h: [heap, planets], the
\* records (flat dicts) placed past the cells the call itself may take, so
\* that the cache's objects get the cells they get without the argument
PlanetsOnHeap(h, planets) ==
    IF planets.t # "list" \/ planets.l = <<>> THEN [heap |-> h, planets |-> planets]
    ELSE [heap |-> h \o [i \in 1..16 |-> Free] \o planets.l,
          planets |-> ListV([i \in 1..Len(planets.l) |-> Ref(Len(h) + 16 + i)])]

\* what the planets argument holds in heap h
PlanetsValue(h, planets) ==
    IF planets.t # "list" THEN planets
    ELSE ListV([i \in 1..Len(planets.l) |-> h[planets.l[i].r]])

\* transform_person(data, keys, NONE_VALUES, planets) gave r: the record it
\* returned is remembered, and what planets holds after the call; the
\* driver's planets is an object of its own in every call
Transformed(data, planets, r) ==
    /\ Commit(r.w, held)
    /\ ret' = [Ret("person", r.exc = "", 0, data, planets,
                   IF r.exc = "" THEN StepsToDict(r.steps) ELSE <<>>, r.steps, r.exc)
                  EXCEPT !.after = PlanetsValue(r.w.heap,
                                                PlanetsOnHeap(heap, planets).planets)]
    /\ seen' = IF r.exc = "" /\ <<data, planets>> \in Tracked
               THEN SetFn(seen, <<data, planets>>,
                          [out |-> StepsToDict(r.steps),
                           n |-> IF <<data, planets>> \in DOMAIN seen
                                 THEN seen[<<data, planets>>].n + 1 ELSE 1])
               ELSE seen

\* the driver calls transform_person(data, keys, NONE_VALUES, planets)
TransformPerson(data, planets, down) ==
    /\ calls < MaxCalls
    /\ Transformed(data, planets,
                   transform_person([World(down) EXCEPT
                                        !.heap = PlanetsOnHeap(heap, planets).heap],
                                    data, KEYS, NONE_VALUES,
                                    PlanetsOnHeap(heap, planets).planets))
    /\ calls' = calls + 1
    /\ UNCHANGED remote

\* a transformer that touches no state ran and gave out, by steps
Pure(op, data, out, steps) ==
    /\ ret' = Ret(op, TRUE, 0, data, NoneV, out, steps, "")
    /\ log' = <<>>
    /\ calls' = calls + 1
    /\ UNCHANGED <<heap, cache, persisted, remote, held, fetchOK, completed, orig,
                   mutated, seen>>

TransformPlanet(data) ==
    /\ calls < MaxCalls
    /\ Pure("planet", data, transform_planet(data, KEYS, NONE_VALUES),
            planet_steps(data, KEYS, NONE_VALUES))

TransformSpecies(data) ==
    /\ calls < MaxCalls
    /\ Pure("species", data, transform_species(data, KEYS, NONE_VALUES),
            species_steps(data, KEYS, NONE_VALUES))

TransformDroid(data) ==
    /\ calls < MaxCalls
    /\ Pure("droid", data, transform_droid(data, KEYS, NONE_VALUES),
            droid_steps(data, KEYS, NONE_VALUES))

TransformStarship(data) ==
    /\ calls < MaxCalls
    /\ Pure("starship", data, transform_starship(data, KEYS, NONE_VALUES),
            starship_steps(data, KEYS, NONE_VALUES))

\* the cache under resolutions, caller mutations, remote revisions and person
\* transforms
Next ==
    \/ \E a \in ResolveArgs, down \in Outages : Resolve(a[1], a[2], down)
    \/ \E i \in 1..Len(held) : MutateField(held[i])
    \/ \E i \in 1..Len(held) : MutateNested(held[i])
    \/ RemoteChange
    \/ \E run \in CacheRuns : TransformPerson(run[1], run[2], run[3])

Spec == Init /\ [][Next]_vars

\* the five transformers over their raw records
NextTransform ==
    \/ \E data \in PlanetRaws : TransformPlanet(data)
    \/ \E data \in SpeciesRaws : TransformSpecies(data)
    \/ \E data \in DroidRaws : TransformDroid(data)
    \/ \E data \in StarshipRaws : TransformStarship(data)
    \/ \E run \in PersonRuns : TransformPerson(run[1], run[2], run[3])

\* every behaviour of SpecTransform is one transformer call, on a cache that
\* is empty or loaded from a file; sequences of calls are Spec's
InitTransform == Start(MaxCalls - 1)

SpecTransform == InitTransform /\ [][NextTransform]_vars

\* ------------------------------------------------------ helpers of main
\* board_passengers, assign_crew_members and count_episodes_by_director take
\* and return lists, tuples and dicts; each call runs on a heap of its own
\* that holds its arguments, and ret keeps the heap the call leaves.

\* l[:n]
PySliceTo(l, n) ==
    IF n >= 0 THEN SubSeq(l, 1, IF n < Len(l) THEN n ELSE Len(l))
    ELSE SubSeq(l, 1, IF Len(l) + n > 0 THEN Len(l) + n ELSE 0)

\* mutant: del passengers[max_passengers:]; return passengers
board_passengers_in_place(h, max_passengers, passengers) ==
    [heap |-> [h EXCEPT ![passengers] = ListV(PySliceTo(h[passengers].l, max_passengers))],
     id |-> passengers]

\* board_passengers(max_passengers, passengers), passengers a list object of
\* h: [heap, id], id the list returned
board_passengers(h, max_passengers, passengers) ==
    [heap |-> Append(h, ListV(PySliceTo(h[passengers].l, max_passengers))),
     id |-> Len(h) + 1]

\* the passengers of a manifest
Passengers == {Str(<<"P", "a">>), Str(<<"C", "3">>), Str(<<"R", "2">>)}

MaxManifest == 3

\* the lists of at most n elements of S
SeqsUpTo(S, n) == UNION {[1..k -> S] : k \in 0..n}

\* a helper call counts as a call and leaves the cache alone
HelperFrame ==
    /\ log' = <<>>
    /\ calls' = calls + 1
    /\ UNCHANGED <<heap, cache, persisted, remote, held, fetchOK, completed, orig,
                   mutated, seen>>

\* the driver calls board_passengers(max_passengers, passenger_manifest), the
\* manifest the one object of the call's heap; ret keeps the heap after it
BoardPassengers(max_passengers, manifest) ==
    /\ calls < MaxCalls
    /\ ret' = [op |-> "board", ok |-> TRUE, max_passengers |-> max_passengers,
               passengers |-> manifest, arg |-> 1,
               id |-> board_passengers(<<ListV(manifest)>>, max_passengers, 1).id,
               after |-> board_passengers(<<ListV(manifest)>>, max_passengers, 1).heap]
    /\ HelperFrame

RECURSIVE CrewLoopFirstWins(_, _, _, _, _)
\* mutant: a label already assigned keeps its crew member
CrewLoopFirstWins(i, out, crew_size, crew_positions, personnel) ==
    IF i >= crew_size THEN [ok |-> TRUE, exc |-> "", out |-> out]
    ELSE IF i >= Len(crew_positions) \/ i >= Len(personnel)
         THEN [ok |-> FALSE, exc |-> "IndexError", out |-> <<>>]
    ELSE CrewLoopFirstWins(i + 1,
                  IF DictHas(out, crew_positions[i + 1]) THEN out
                  ELSE DictSet(out, crew_positions[i + 1], personnel[i + 1]),
                  crew_size, crew_positions, personnel)

RECURSIVE CrewLoop(_, _, _, _, _)
\* {crew_positions[i]: personnel[i] for i in range(crew_size)} from index i
\* on (indices from 0, tuples from 1), as [ok, exc, out]: an index past the
\* end of either tuple raises IndexError and no dict is built
CrewLoop(i, out, crew_size, crew_positions, personnel) ==
    IF i >= crew_size THEN [ok |-> TRUE, exc |-> "", out |-> out]
    ELSE IF i >= Len(crew_positions) \/ i >= Len(personnel)
         THEN [ok |-> FALSE, exc |-> "IndexError", out |-> <<>>]
    ELSE CrewLoop(i + 1, DictSet(out, crew_positions[i + 1], personnel[i + 1]),
                  crew_size, crew_positions, personnel)

\* mutant: range(min(crew_size, len(crew_positions), len(personnel)))
assign_crew_members_clamped(crew_size, crew_positions, personnel) ==
    CrewLoop(0, <<>>,
             IF crew_size > Len(crew_positions) \/ crew_size > Len(personnel)
             THEN (IF Len(crew_positions) < Len(personnel)
                   THEN Len(crew_positions) ELSE Len(personnel))
             ELSE crew_size,
             crew_positions, personnel)

assign_crew_members(crew_size, crew_positions, personnel) ==
    CrewLoop(0, <<>>, crew_size, crew_positions, personnel)

MaxCrew == 3

\* position labels
CrewPositions == {"pilot", "copilot"}

\* flight crew
Personnel == {Str(<<"A", "n">>), Str(<<"O", "b">>)}

\* the driver calls assign_crew_members(crew_size, crew_positions, personnel)
AssignCrewMembers(crew_size, crew_positions, personnel) ==
    /\ calls < MaxCalls
    /\ ret' = [op |-> "crew", crew_size |-> crew_size,
               crew_positions |-> crew_positions, personnel |-> personnel,
               ok |-> assign_crew_members(crew_size, crew_positions, personnel).ok,
               exc |-> assign_crew_members(crew_size, crew_positions, personnel).exc,
               out |-> assign_crew_members(crew_size, crew_positions, personnel).out]
    /\ HelperFrame

\* ---- binary64 arithmetic of the episode counts
\* A positive number is [e, m]: m its binary digits from the leading 1 (at
\* weight 2^e) down; a float has Precision digits, the exact sum of floats
\* may have more.

\* digits of a float's significand
Precision == 53

Dyadic(e, m) == [e |-> e, m |-> m]

\* the digit of x at weight 2^p
Bit(x, p) == IF p <= x.e /\ p > x.e - Len(x.m) THEN x.m[x.e - p + 1] ELSE 0

RECURSIVE Normalize(_, _)
\* the number with digits bits from weight 2^top down, leading zeros dropped
Normalize(top, bits) ==
    IF bits[1] = 1 THEN Dyadic(top, bits) ELSE Normalize(top - 1, Tail(bits))

RECURSIVE AddBits(_, _, _, _, _, _)
\* the digits of x + y from weight 2^hi down; acc holds those from weight
\* 2^lo up to the one being added, carry is the carry into it
AddBits(lo, carry, acc, x, y, hi) ==
    IF lo + Len(acc) > hi THEN acc
    ELSE IF Bit(x, lo + Len(acc)) + Bit(y, lo + Len(acc)) + carry >= 2
         THEN AddBits(lo, 1,
                      <<Bit(x, lo + Len(acc)) + Bit(y, lo + Len(acc)) + carry - 2>> \o acc,
                      x, y, hi)
         ELSE AddBits(lo, 0,
                      <<Bit(x, lo + Len(acc)) + Bit(y, lo + Len(acc)) + carry>> \o acc,
                      x, y, hi)

\* x + y exactly
ExactAdd(x, y) ==
    Normalize((IF x.e > y.e THEN x.e ELSE y.e) + 1,
              AddBits(IF x.e - Len(x.m) < y.e - Len(y.m)
                      THEN x.e - Len(x.m) + 1 ELSE y.e - Len(y.m) + 1, 0, <<>>, x, y,
                      (IF x.e > y.e THEN x.e ELSE y.e) + 1))

\* the float above [e, m]: m + 1 in the last place, the digits after the
\* last 0 of m cleared and that 0 set
RoundUp(e, m) ==
    IF \A i \in 1..Len(m) : m[i] = 1
    THEN Dyadic(e + 1, [i \in 1..Len(m) |-> IF i = 1 THEN 1 ELSE 0])
    ELSE Dyadic(e, [i \in 1..Len(m) |->
                       IF \E j \in (i + 1)..Len(m) : m[j] = 0 THEN m[i]
                       ELSE IF m[i] = 0 THEN 1 ELSE 0])

\* x rounded to the nearest float, ties to even
Round(x) ==
    IF Len(x.m) <= Precision
    THEN Dyadic(x.e, [i \in 1..Precision |-> IF i <= Len(x.m) THEN x.m[i] ELSE 0])
    ELSE IF /\ x.m[Precision + 1] = 1
            /\ \/ x.m[Precision] = 1
               \/ \E i \in (Precision + 2)..Len(x.m) : x.m[i] = 1
         THEN RoundUp(x.e, SubSeq(x.m, 1, Precision))
         ELSE Dyadic(x.e, SubSeq(x.m, 1, Precision))

\* x + y of floats
FAdd(x, y) == Round(ExactAdd(x, y))

RECURSIVE DivBits(_, _, _, _)
\* the quotient by k to n digits after the point: acc the digits so far, r
\* the remainder they leave; a last digit 1 stands for a remainder left over
DivBits(r, k, n, acc) ==
    IF Len(acc) > n THEN Append(acc, IF r = 0 THEN 0 ELSE 1)
    ELSE IF 2 * r >= k THEN DivBits(2 * r - k, k, n, Append(acc, 1))
    ELSE DivBits(2 * r, k, n, Append(acc, 0))

\* 1.0 / k for an int k >= 1
FDivOne(k) == Round(Normalize(0, DivBits(1 % k, k, Precision + k, <<1 \div k>>)))

\* directors of an episode: episode["episode_director"].split(", ")
EpisodeDirectors(episode) == Split(DictGet(episode, "episode_director").s, <<",", " ">>)

RECURSIVE CreditLoopAssign(_, _, _, _)
\* mutant: director_episode_counts[director] = increment on every credit
CreditLoopAssign(j, counts, directors, increment) ==
    IF j > Len(directors) THEN counts
    ELSE CreditLoopAssign(j + 1, DictSet(counts, directors[j], increment),
                          directors, increment)

RECURSIVE CreditLoop(_, _, _, _)
\* for director in directors, from the j-th on
CreditLoop(j, counts, directors, increment) ==
    IF j > Len(directors) THEN counts
    ELSE CreditLoop(j + 1,
                    IF DictHas(counts, directors[j])
                    THEN DictSet(counts, directors[j],
                                 FAdd(DictGet(counts, directors[j]), increment))
                    ELSE DictSet(counts, directors[j], increment),
                    directors, increment)

RECURSIVE EpisodeLoop(_, _, _)
\* for episode in episodes, from the i-th on: increment = 1.0 /
\* len(directors), then the credits
EpisodeLoop(i, counts, episodes) ==
    IF i > Len(episodes) THEN counts
    ELSE EpisodeLoop(i + 1,
                     CreditLoop(1, counts, EpisodeDirectors(episodes[i]),
                                FDivOne(Len(EpisodeDirectors(episodes[i])))),
                     episodes)

count_episodes_by_director(episodes) == EpisodeLoop(1, <<>>, episodes)

\* an episode credited to the directors named in s
Episode(s) == <<Item("episode_director", Str(s))>>

\* credits: a sole director, two, three, and one name twice
Credits ==
    {Episode(<<"A">>), Episode(<<"B">>),
     Episode(<<"A", ",", " ", "B">>),
     Episode(<<"A", ",", " ", "A">>),
     Episode(<<"A", ",", " ", "B", ",", " ", "C">>)}

MaxEpisodes == 3

\* the driver calls count_episodes_by_director(clone_wars_episodes)
CountEpisodesByDirector(episodes) ==
    /\ calls < MaxCalls
    /\ ret' = [op |-> "directors", ok |-> TRUE, episodes |-> episodes,
               out |-> count_episodes_by_director(episodes)]
    /\ HelperFrame

\* the helper calls of main, each on arguments of its own: max_passengers
\* and crew_size negative, zero, and up to one above the longest list; the
\* same label twice among the positions; one call in a behaviour
NextHelpers ==
    \/ \E n \in -1..(MaxManifest + 1), m \in SeqsUpTo(Passengers, MaxManifest) :
          BoardPassengers(n, m)
    \/ \E n \in -1..(MaxCrew + 1), p \in SeqsUpTo(CrewPositions, MaxCrew),
          c \in SeqsUpTo(Personnel, MaxCrew) : AssignCrewMembers(n, p, c)
    \/ \E episodes \in SeqsUpTo(Credits, MaxEpisodes) :
          CountEpisodesByDirector(episodes)

SpecHelpers == InitTransform /\ [][NextHelpers]_vars

\* ----------------------------------------------------------------- claims

\* the events ev in a log
LogAt(l, ev) == {i \in 1..Len(l) : l[i].ev = ev}

\* the returns of hits in a log: a hit's return follows its lookup at once
HitReturns(l) == {i \in LogAt(l, "return") : i > 1 /\ l[i - 1].ev = "hit"}

KeyPlanet == create_cache_key(UrlPlanet, NoneV)

KeySpecies == create_cache_key(UrlSpecies, NoneV)

\* C1: the fetcher is invoked only for a fingerprint that is absent from the
\* cache and has no completed resolution, so no fingerprint is ever fetched
\* successfully twice.
C1_FetchOnlyOnMiss ==
    /\ [](\A k \in DOMAIN fetchOK : fetchOK[k] <= 1)
    /\ [][\A i \in LogAt(log', "fetch") :
            /\ ~DictHas(cache, log'[i].key)
            /\ log'[i].key \notin completed
            /\ \A j \in 1..(i - 1) :
                  ~(log'[j].ev \in {"store", "return"} /\ log'[j].key = log'[i].key)]_vars

\* a resolution was a hit for a fingerprint fetched earlier in the run
C1_Witness ==
    /\ ret.op = "resolve"
    /\ \E i \in HitReturns(log) : Count(fetchOK, log[i].key) = 1

\* C2: every hit returns a value equal to the resource first fetched for its
\* fingerprint, whatever the callers did to the values returned before.
C2_HitsReturnOriginal ==
    \A i \in HitReturns(log) : log[i].val = DictGet(orig, log[i].key)

\* a hit for a fingerprint of which a returned value was mutated
C2_Witness == \E i \in HitReturns(log) : log[i].key \in mutated

\* C3: a get_swapi_resource call whose fetch fails raises to the caller after
\* that one fetch, returns nothing, and leaves the cache and the cache file
\* as they were.
C3_FailedFetchLeavesStore ==
    [][(ret'.op = "resolve" /\ calls' = calls + 1 /\ LogAt(log', "failed") # {}) =>
          /\ ~ret'.ok
          /\ ret'.exc = "fetch"
          /\ held' = held
          /\ Cardinality(LogAt(log', "fetch")) = 1
          /\ cache' = cache
          /\ CacheDocument(heap', cache') = CacheDocument(heap, cache)
          /\ persisted' = persisted]_vars

\* a resolution failed while the cache held an entry
C3_Witness ==
    /\ ret.op = "resolve"
    /\ ~ret.ok
    /\ LogAt(log, "failed") # {}
    /\ cache # <<>>

\* C4: once a get_swapi_resource call of the operation has completed the
\* cache file holds the whole cache, and the file was written once per
\* successful fetch: on every miss, never on a hit.
C4_WriteThrough ==
    LogAt(log, "return") # {} =>
        /\ persisted = CacheDocument(heap, cache)
        /\ Cardinality(LogAt(log, "persist")) = Cardinality(LogAt(log, "fetched"))
        /\ LogAt(log, "miss") = {} => LogAt(log, "persist") = {}

\* a hit completed with two entries in the cache
C4_Witness ==
    /\ ret.op = "resolve"
    /\ HitReturns(log) # {}
    /\ Len(cache) = 2

\* C5: an entry of the cache is never removed and its stored value never
\* changes.
C5_AppendOnly ==
    [][\A i \in 1..Len(cache) :
          /\ DictHas(cache', cache[i].k)
          /\ Deref(heap', DictGet(cache', cache[i].k)) = Deref(heap, cache[i].v)]_vars

\* a miss stored a second entry beside one that was there
C5_Witness ==
    /\ LogAt(log, "store") # {}
    /\ Len(cache) = 2

\* the operations that are transformers
Kinds == {"planet", "species", "droid", "person", "starship"}

\* the output names keys[kind] declares, in order
Declared(kind) == [i \in 1..Len(KEYS[kind]) |-> KEYS[kind][i].v]

\* C6: the record a transformer returns has exactly the keys keys[kind]
\* declares, in the declared order, whatever fields the raw record has.
C6_OutputKeysAsDeclared ==
    (ret.op \in Kinds /\ ret.ok) => DictKeys(ret.out) = Declared(ret.op)

\* a planet was made of the empty record
C6_Witness ==
    /\ ret.op = "planet"
    /\ ret.data = <<>>
    /\ Len(ret.out) = Len(KeysPlanet)

\* a string equal to a member of none_values once lowered
SentinelAnyCase(value) ==
    /\ value.t = "str"
    /\ PyIn(Str(Lower(value.s)), NONE_VALUES)

\* C7: a raw string that matches a member of none_values irrespective of case
\* gives None in the output, and is passed neither to a coercion nor to
\* get_swapi_resource.
C7_SentinelAnyCaseGivesNone ==
    ret.op \in Kinds =>
        \A i \in 1..Len(KEYS[ret.op]) :
            LET raw == DictGet(ret.data, KEYS[ret.op][i].k)
                new == KEYS[ret.op][i].v
            IN SentinelAnyCase(raw) =>
                  /\ ret.ok => DictGet(ret.out, new) = NoneV
                  /\ \A j \in 1..Len(ret.steps) :
                        ret.steps[j].k = new => ret.steps[j].fn = "to_none"
                  /\ \A j \in LogAt(log, "key") : log[j].key.url # raw

\* C8: a field of keys[kind] the raw record lacks gives None in the output and
\* does not stop the transform: nothing is resolved for it, and the transform
\* fails only where a fetch or a value the record does give makes it fail.
C8_AbsentFieldGivesNone ==
    ret.op \in Kinds =>
        \A i \in 1..Len(KEYS[ret.op]) :
            ~DictHas(ret.data, KEYS[ret.op][i].k) =>
                /\ ret.ok => DictGet(ret.out, KEYS[ret.op][i].v) = NoneV
                /\ ~ret.ok => ret.exc \in {"fetch", "IndexError", "KeyError"}
                /\ \A j \in LogAt(log, "key") : log[j].key.url # NoneV

\* C9: a person transform gives the record that the same arguments gave
\* before, whatever happened to the cache, the remote data and the values
\* returned in between.
C9_SameArgumentsSameRecord ==
    [][\A a \in DOMAIN seen :
          /\ a \in DOMAIN seen'
          /\ seen'[a].out = seen[a].out]_vars

\* the second of two person transforms with planets given: the first fetched
\* homeworld and species and overlaid the homeworld, the second hit for both
C9_Witness ==
    /\ ret.op = "person"
    /\ ret.ok
    /\ calls = 2
    /\ Truthy(ret.planets)
    /\ <<ret.data, ret.planets>> \in DOMAIN seen
    /\ seen[<<ret.data, ret.planets>>].n = 2
    /\ LogAt(log, "miss") = {}
    /\ Cardinality(HitReturns(log)) = 2
    /\ Count(fetchOK, KeyPlanet) = 1
    /\ Count(fetchOK, KeySpecies) = 1
    /\ KeyPlanet \in mutated

\* primary with every key of secondary set to secondary's value
Overlaid(primary, secondary) ==
    [i \in 1..Len(primary) |->
        IF DictHas(secondary, primary[i].k)
        THEN Item(primary[i].k, DictGet(secondary, primary[i].k))
        ELSE primary[i]]
        \o SelectSeq(secondary, LAMBDA it : ~DictHas(primary, it.k))

\* the positions in planets of the records named name
Matches(planets, name) ==
    IF planets.t # "list" THEN {}
    ELSE {i \in 1..Len(planets.l) : DictGet(planets.l[i].d, "name") = name}

\* the record transform_planet is to be given for a resolved homeworld
ExpectedHomeworld(resolved, planets) ==
    LET m == Matches(planets, DictGet(resolved, "name"))
    IN IF m = {} THEN resolved
       ELSE Overlaid(resolved, planets.l[CHOOSE i \in m : \A j \in m : i <= j].d)

\* C10: the homeworld of a person is transform_planet of the resolved record
\* overlaid with the first secondary record of its name, the secondary value
\* winning, and of the resolved record alone when there is no such record.
C10_HomeworldOverlay ==
    (ret.op = "person" /\ ret.ok) =>
        \A i \in LogAt(log, "return") :
            log[i].key = create_cache_key(DictGet(ret.data, "homeworld"), NoneV) =>
                DictGet(ret.out, "homeworld")
                    = DictV(transform_planet(ExpectedHomeworld(log[i].val.d, ret.planets),
                                             KEYS, NONE_VALUES))

\* a homeworld took diameter and region from the first of two secondary
\* records of its name
C10_Witness ==
    /\ ret.op = "person"
    /\ ret.ok
    /\ Cardinality(Matches(ret.planets, NameTat)) = 2
    /\ DictGet(DictGet(ret.out, "homeworld").d, "diameter_km") = IntV(12120)
    /\ DictGet(DictGet(ret.out, "homeworld").d, "region") = Str(<<"O", "u", "t">>)

\* min(a, b)
Min(a, b) == IF a <= b THEN a ELSE b

\* C11: for a capacity of 0 or more board_passengers returns a list of the
\* first min(capacity, len(passengers)) passengers in their order, and the
\* list it was given is as it was.
C11_BoardsPrefix ==
    (ret.op = "board" /\ ret.max_passengers >= 0) =>
        LET n == Min(ret.max_passengers, Len(ret.passengers))
        IN /\ ret.after[ret.id].l = [i \in 1..n |-> ret.passengers[i]]
           /\ ret.after[ret.arg].l = ret.passengers

\* two of three passengers boarded, and three with room for four
C11_Witness ==
    /\ ret.op = "board"
    /\ Len(ret.passengers) = 3
    /\ \/ ret.max_passengers = 2 /\ Len(ret.after[ret.id].l) = 2
       \/ ret.max_passengers = 4 /\ Len(ret.after[ret.id].l) = 3

\* a call of assign_crew_members with 0 <= crew_size <= both lengths
CrewInRange ==
    /\ ret.op = "crew"
    /\ 0 <= ret.crew_size
    /\ ret.crew_size <= Min(Len(ret.crew_positions), Len(ret.personnel))

\* the keys of the mapping are the first crew_size labels and no others
CrewKeysAreFirstLabels ==
    {ret.out[j].k : j \in 1..Len(ret.out)}
        = {ret.crew_positions[i] : i \in 1..ret.crew_size}

C13_SizeAboveLengthRaises ==
    (/\ ret.op = "crew"
     /\ \/ ret.crew_size > Len(ret.crew_positions)
        \/ ret.crew_size > Len(ret.personnel)) =>
        ~ret.ok /\ ret.exc = "IndexError" /\ ret.out = <<>>

\* crew_size above the personnel only, and above the positions only
C13_Witness ==
    /\ ret.op = "crew" /\ ~ret.ok
    /\ \/ ret.crew_size <= Len(ret.crew_positions) /\ ret.crew_size > Len(ret.personnel)
       \/ ret.crew_size > Len(ret.crew_positions) /\ ret.crew_size <= Len(ret.personnel)

\* x and y are the same number
Same(x, y) ==
    /\ x.e = y.e
    /\ \A i \in 0..(Len(x.m) + Len(y.m)) : Bit(x, x.e - i) = Bit(y, x.e - i)

\* x <= y
Leq(x, y) ==
    IF x.e # y.e THEN x.e < y.e
    ELSE \A i \in 0..(Len(x.m) + Len(y.m)) :
            \/ Bit(x, x.e - i) <= Bit(y, x.e - i)
            \/ \E j \in 0..(i - 1) : Bit(x, x.e - j) # Bit(y, x.e - j)

RECURSIVE KTimes(_, _)
\* k * x exactly, k >= 1
KTimes(x, k) == IF k = 1 THEN x ELSE ExactAdd(KTimes(x, k - 1), x)

RECURSIVE IntBits(_)
\* the binary digits of n
IntBits(n) == IF n = 0 THEN <<>> ELSE Append(IntBits(n \div 2), n % 2)

\* the int n >= 1 as a number
FromInt(n) == Dyadic(Len(IntBits(n)) - 1, IntBits(n))

\* half a unit in the last place of the float x
HalfUlp(x) == Dyadic(x.e - Precision, <<1>>)

\* x is a float and no float is nearer to 1/k: |k*x - 1| <= k * HalfUlp(x)
NearestToOneOver(x, k) ==
    /\ Len(x.m) = Precision
    /\ Leq(KTimes(x, k), ExactAdd(FromInt(1), KTimes(HalfUlp(x), k)))
    /\ Leq(FromInt(1), ExactAdd(KTimes(x, k), KTimes(HalfUlp(x), k)))

\* the names credited in episodes
Names(episodes) ==
    UNION {{EpisodeDirectors(episodes[i])[j] :
               j \in 1..Len(EpisodeDirectors(episodes[i]))} : i \in 1..Len(episodes)}

\* how often directors names d
Occurrences(d, directors) == Cardinality({j \in 1..Len(directors) : directors[j] = d})

RECURSIVE CreditsOf(_, _, _)
\* for each credit of d in episodes from the i-th on, in order, the number
\* of directors it is shared with
CreditsOf(d, i, episodes) ==
    IF i > Len(episodes) THEN <<>>
    ELSE [j \in 1..Occurrences(d, EpisodeDirectors(episodes[i])) |->
             Len(EpisodeDirectors(episodes[i]))]
         \o CreditsOf(d, i + 1, episodes)

RECURSIVE Accumulated(_, _, _)
\* 1.0/ks[1] + 1.0/ks[2] + ... added in floats from the left; acc the sum
\* of the first i - 1
Accumulated(ks, i, acc) ==
    IF i > Len(ks) THEN acc
    ELSE Accumulated(ks, i + 1, FAdd(acc, FDivOne(ks[i])))

RECURSIVE FloatSum(_, _, _)
\* the counts of d from the i-th on added to acc in floats, in dict order
FloatSum(d, i, acc) ==
    IF i > Len(d) THEN acc ELSE FloatSum(d, i + 1, FAdd(acc, d[i].v))

RECURSIVE ExactSum(_, _, _)
\* the counts of d from the i-th on added to acc exactly
ExactSum(d, i, acc) ==
    IF i > Len(d) THEN acc ELSE ExactSum(d, i + 1, ExactAdd(acc, d[i].v))

\* a call of count_episodes_by_director on one episode or more
CountedSome == ret.op = "directors" /\ ret.episodes # <<>>

\* the counts add up to the number of episodes, added in floats or exactly
\* and then rounded
SumIsEpisodeCount ==
    \/ Same(FloatSum(ret.out, 2, ret.out[1].v), FromInt(Len(ret.episodes)))
    \/ Same(Round(ExactSum(ret.out, 2, ret.out[1].v)), FromInt(Len(ret.episodes)))

\* C14 as stated: the counts of all directors add up to the number of
\* episodes, however many directors share an episode.
C14_CountsSumToEpisodes == CountedSome => SumIsEpisodeCount

\* C14 amended: the counts are kept per director name; a director's count
\* is the float sum, in episode order, of 1.0/k over the director's credits,
\* 1.0/k being the float nearest to 1/k (1.0 for k = 1, 0.5 for k = 2); when
\* every episode credits one or two directors the counts add up to the
\* number of episodes exactly.
C14_CountsAccumulateRounded ==
    CountedSome =>
        /\ {ret.out[j].k : j \in 1..Len(ret.out)} = Names(ret.episodes)
        /\ Len(ret.out) = Cardinality(Names(ret.episodes))
        /\ \A d \in Names(ret.episodes) :
              /\ Same(DictGet(ret.out, d),
                      Accumulated(CreditsOf(d, 1, ret.episodes), 2,
                                  FDivOne(CreditsOf(d, 1, ret.episodes)[1])))
              /\ Len(CreditsOf(d, 1, ret.episodes)) = 1 =>
                    NearestToOneOver(DictGet(ret.out, d),
                                     CreditsOf(d, 1, ret.episodes)[1])
        /\ (\A i \in 1..Len(ret.episodes) :
               Len(EpisodeDirectors(ret.episodes[i])) <= 2) =>
              /\ Same(ExactSum(ret.out, 2, ret.out[1].v), FromInt(Len(ret.episodes)))
              /\ Same(FloatSum(ret.out, 2, ret.out[1].v), FromInt(Len(ret.episodes)))

\* a credit shared by two and one shared by three: the counts do not add
\* up to 2
C14_Witness ==
    /\ CountedSome
    /\ Len(ret.episodes) = 2
    /\ Len(EpisodeDirectors(ret.episodes[1])) = 2
    /\ Len(EpisodeDirectors(ret.episodes[2])) = 3
    /\ Len(ret.out) = 3
    /\ ~SumIsEpisodeCount

\* the events of l from the i-th on are evs, all for the fingerprint of the
\* i-th
EventsFrom(l, i, evs) ==
    /\ i >= 1
    /\ i + Len(evs) - 1 <= Len(l)
    /\ \A j \in 1..Len(evs) : l[i + j - 1].ev = evs[j] /\ l[i + j - 1].key = l[i].key

\* C15: a miss runs in one order: the fingerprint is computed, the lookup
\* misses, the fetcher is called, and when it succeeds the snapshot is
\* stored, the cache is written to the file and only then the value is
\* returned; the file written holds the entry, so the entry was in memory
\* when the file was written.
C15_MissOrder ==
    \A i \in LogAt(log, "miss") :
        /\ \/ EventsFrom(log, i - 1, <<"key", "miss", "fetch", "failed", "raise">>)
           \/ EventsFrom(log, i - 1,
                         <<"key", "miss", "fetch", "fetched", "store", "persist", "return">>)
        /\ \A j \in LogAt(log, "return") :
              (j > i /\ log[j].key = log[i].key) =>
                  /\ DictHas(cache, log[i].key)
                  /\ persisted.t = "dict"
                  /\ DictHas(persisted.d, log[i].key)
                  /\ DictGet(persisted.d, log[i].key)
                        = Deref(heap, DictGet(cache, log[i].key))

\* a person transform missed twice and returned: two entries stored and
\* written in turn
C15_Witness ==
    /\ ret.op = "person" /\ ret.ok
    /\ Cardinality(LogAt(log, "miss")) = 2
    /\ Cardinality(LogAt(log, "persist")) = 2
    /\ \E i \in LogAt(log, "miss") :
          EventsFrom(log, i - 1,
                     <<"key", "miss", "fetch", "fetched", "store", "persist", "return">>)

\* C16: a value get_swapi_resource returns, on a miss as on a hit, is an
\* object of its own: not the object stored in the cache for the
\* fingerprint, and not the object the fetcher produced.
C16_ReturnsAreCopies ==
    \A i \in LogAt(log, "return") :
        /\ log[i].id # DictGet(cache, log[i].key)
        /\ \A j \in LogAt(log, "fetched") :
              log[j].key = log[i].key => log[j].id # log[i].id

\* the rule table: the coercion declared for a raw field of an entity, with
\* its delimiter; <<"">> for a field the table does not name
Rule(kind, field) ==
    IF kind = "planet" /\ field \in {"suns", "moons", "diameter", "population"}
    THEN <<"to_int">>
    ELSE IF kind = "planet" /\ field = "orbital_period" THEN <<"to_float">>
    ELSE IF kind = "planet" /\ field = "gravity" THEN <<"to_gravity_value">>
    ELSE IF kind = "planet" /\ field \in {"climate", "terrain"}
    THEN <<"to_list", <<",", " ">>>>
    ELSE IF kind = "species" /\ field = "average_height" THEN <<"to_float">>
    ELSE IF kind = "species" /\ field = "average_lifespan" THEN <<"to_int">>
    ELSE IF kind = "droid" /\ field \in {"height", "mass"} THEN <<"to_float">>
    ELSE IF kind = "droid" /\ field = "create_year" THEN <<"to_year_era">>
    ELSE IF kind = "droid" /\ field \in {"equipment", "instructions"}
    THEN <<"to_list", <<"|">>>>
    ELSE IF kind = "starship" /\ field \in {"length", "hyperdrive_rating"}
    THEN <<"to_float">>
    ELSE IF kind = "starship"
            /\ field \in {"MGLT", "crew", "passengers", "cargo_capacity",
                          "max_atmosphering_speed"}
    THEN <<"to_int">>
    ELSE IF kind = "starship" /\ field = "armament" THEN <<"to_list", <<",">>>>
    ELSE <<"">>

\* value under a rule of the table
Coerced(rule, value) ==
    CASE rule[1] = "to_int" -> to_int(value)
      [] rule[1] = "to_float" -> to_float(value)
      [] rule[1] = "to_gravity_value" -> to_gravity_value(value)
      [] rule[1] = "to_year_era" -> to_year_era(value)
      [] rule[1] = "to_list" -> to_list(value, rule[2])
      [] OTHER -> value

\* C17: in the record a planet, species, droid or starship transformer
\* returns, every mapped field whose raw value is not in none_values holds
\* that value under the coercion the rule table declares for the field, and
\* the value itself when the table declares none.
C17_CoercionsAsTabled ==
    ret.op \in {"planet", "species", "droid", "starship"} =>
        \A i \in 1..Len(KEYS[ret.op]) :
            (/\ DictHas(ret.data, KEYS[ret.op][i].k)
             /\ ~PyIn(DictGet(ret.data, KEYS[ret.op][i].k), NONE_VALUES)) =>
                /\ ret.steps[i].fn = Rule(ret.op, KEYS[ret.op][i].k)[1]
                /\ DictGet(ret.out, KEYS[ret.op][i].v)
                      = Coerced(Rule(ret.op, KEYS[ret.op][i].k),
                                DictGet(ret.data, KEYS[ret.op][i].k))

\* a planet whose climate "a, b" became the list of a and b and whose other
\* fields were coerced or copied
C17_Witness ==
    /\ ret.op = "planet"
    /\ DictGet(ret.data, "climate") = Str(<<"a", ",", " ", "b">>)
    /\ DictGet(ret.out, "climate") = ListV(<<Str(<<"a">>), Str(<<"b">>)>>)
    /\ DictGet(ret.out, "diameter_km") = IntV(10465)
    /\ DictGet(ret.out, "name") = NameTat

\* a person transform whose raw species is a non-empty list
SpeciesListGiven ==
    /\ ret.op = "person"
    /\ DictGet(ret.data, "species").t = "list"
    /\ DictGet(ret.data, "species").l # <<>>

\* C18: of a species list transform_person resolves the first element only:
\* no lookup and no fetch is made for another element of the list, and the
\* species of the record returned is transform_species of what
\* get_swapi_resource returned for the first.
C18_FirstSpeciesOnly ==
    SpeciesListGiven =>
        /\ \A j \in LogAt(log, "key") \cup LogAt(log, "fetch") :
              log[j].key \in {create_cache_key(DictGet(ret.data, "species").l[1], NoneV),
                              create_cache_key(DictGet(ret.data, "homeworld"), NoneV)}
        /\ ret.ok =>
              \E i \in LogAt(log, "return") :
                  /\ log[i].key = create_cache_key(DictGet(ret.data, "species").l[1], NoneV)
                  /\ DictGet(ret.out, "species")
                        = DictV(transform_species(log[i].val.d, KEYS, NONE_VALUES))

\* a person with two species returned with the first resolved
C18_Witness ==
    /\ SpeciesListGiven /\ ret.ok
    /\ DictGet(ret.data, "species") = ListV(<<UrlSpecies, UrlOther>>)
    /\ DictGet(ret.data, "homeworld") = UrlPlanet
    /\ DictGet(DictGet(ret.out, "species").d, "name") = NameHum
    /\ Cardinality(LogAt(log, "key")) = 2

\* the returns in l of successful misses that a failed fetch follows
MissesBeforeFailure(l) ==
    {i \in LogAt(l, "return") :
        /\ EventsFrom(l, i - 6,
                      <<"key", "miss", "fetch", "fetched", "store", "persist", "return">>)
        /\ \E j \in LogAt(l, "failed") : j > i}

\* C20: when a person transform's first resolution is a successful miss and
\* the fetch of its second fails, the transform ends with the failure and
\* returns no record, the first entry stays in the cache and in its file,
\* and the same transform run again fetches nothing for the first.
C20_FailureKeepsFirstEntry ==
    /\ []((ret.op = "person" /\ MissesBeforeFailure(log) # {}) =>
             /\ ~ret.ok /\ ret.exc = "fetch" /\ ret.out = <<>>
             /\ \A i \in MissesBeforeFailure(log) :
                   /\ DictHas(cache, log[i].key)
                   /\ persisted.t = "dict"
                   /\ DictGet(persisted.d, log[i].key) = log[i].val)
    /\ [][(/\ ret.op = "person"
           /\ ret'.op = "person" /\ ret'.data = ret.data /\ ret'.planets = ret.planets) =>
             \A i \in MissesBeforeFailure(log), j \in LogAt(log', "fetch") :
                 log'[j].key # log[i].key]_vars

\* a person transform stored its homeworld and failed on its species
C20_Witness ==
    /\ ret.op = "person" /\ ~ret.ok
    /\ \E i \in MissesBeforeFailure(log) : log[i].key = KeyPlanet
    /\ \E j \in LogAt(log, "failed") : log[j].key = KeySpecies
    /\ DictHas(cache, KeyPlanet) /\ ~DictHas(cache, KeySpecies)

\* C19: transform_person leaves its planets argument as it was given, every
\* record of it, whether it returns or raises; its overlay writes to the
\* value get_swapi_resource returned and to nothing else, so the entries of
\* the cache are as first fetched.
C19_ArgumentsUnchanged ==
    ret.op = "person" =>
        /\ ret.after = ret.planets
        /\ \A i \in 1..Len(cache) :
              Deref(heap, cache[i].v) = DictGet(orig, cache[i].k)

\* a person returned with a homeworld overlaid from planets
C19_Witness ==
    /\ ret.op = "person" /\ ret.ok
    /\ ret.planets = ListV(<<WookNab, WookTat, WookTatAgain>>)
    /\ DictGet(DictGet(ret.out, "homeworld").d, "diameter_km") = IntV(12120)
    /\ ret.after = ret.planets

====
